---- MODULE Spec2Model ----
(***************************************************************************)
(* Model of the xw crate: the crossword Puzzle container (src/puzzle.rs)   *)
(* and the length-bucketed Lexicon (src/lexicon.rs).                       *)
(*                                                                         *)
(* Characters are Unicode scalar values (integers).  A String is a         *)
(* sequence of characters.  A Square (Option<char>) is the empty sequence  *)
(* for None and a one-element sequence for Some(c).  The grid is indexed   *)
(* from 0 as in the source; Vec values are TLA+ sequences, so the source's *)
(* v[i] is v[i + 1] here.                                                  *)
(***************************************************************************)
EXTENDS Integers, Sequences, FiniteSets, TLC

VARIABLES text, pc, err, heap, last, words, lexicon, answers

vars == <<text, pc, err, heap, last, words, lexicon, answers>>

(***************************************************************************)
(* Bounds of the model                                                     *)
(***************************************************************************)
\* longest free-form text handed to parse
MaxTextLen == 5
\* largest rectangular grid handed to parse
MaxRows == 2
MaxCols == 3
\* number of live puzzles: the parsed one and those derived from it
MaxPuzzles == 3
\* longest value handed to with_filled_slot
MaxValLen == 2
\* longest one-row text whose slots are matched against a lexicon
LexTextLen == 2
\* longest word list handed to Lexicon::from_words
MaxWords == 2

(***************************************************************************)
(* Characters                                                              *)
(***************************************************************************)
NEWLINE == 10
BLOCKED_CHAR == 46
BLANK_CHAR == 32

\* '.', 'A', 'B', '\n', U+0301 COMBINING ACUTE ACCENT
TextAlphabet == {46, 65, 66, 10, 769}
\* '.', 'A'
GridAlphabet == {46, 65}
\* '.', U+00E9 (two bytes in UTF-8)
ValueAlphabet == {46, 233}
\* ' ', 'a', 'B'
PatternAlphabet == {32, 97, 66}
\* the shapes <<rows, columns>> of the grids that are accessed and filled
FillShapes == {<<1, 1>>, <<1, 2>>, <<2, 1>>, <<2, 2>>}
\* the words a word list is made of: "", "a", "A", "B", "\u{e9}", "aB", "Ba",
\* "AB", "a\u{e9}"
Vocabulary ==
    {<<>>, <<97>>, <<65>>, <<66>>, <<233>>,
     <<97, 66>>, <<66, 97>>, <<65, 66>>, <<97, 233>>}

SeqsUpTo(S, n) == UNION {[1..m -> S] : m \in 0..n}

\* char::len_utf8
len_utf8(c) == IF c < 128 THEN 1 ELSE IF c < 2048 THEN 2 ELSE IF c < 65536 THEN 3 ELSE 4

\* char::is_ascii
is_ascii(c) == c < 128

\* char::to_ascii_uppercase
to_ascii_uppercase(c) == IF c >= 97 /\ c <= 122 THEN c - 32 ELSE c

\* Grapheme_Cluster_Break = Extend, restricted to the Combining Diacritical
\* Marks block U+0300..U+036F
IsExtend(c) == c >= 768 /\ c <= 879

None == <<>>
Some(c) == <<c>>
is_none(sq) == sq = None

(***************************************************************************)
(* str::split('\n'), str::chars().count(), str::char_indices(),            *)
(* UnicodeSegmentation::graphemes(_, true)                                 *)
(***************************************************************************)
RECURSIVE SplitFrom(_, _, _, _)
SplitFrom(s, idx, cur, acc) ==
    IF idx > Len(s) THEN Append(acc, cur)
    ELSE IF s[idx] = NEWLINE THEN SplitFrom(s, idx + 1, <<>>, Append(acc, cur))
    ELSE SplitFrom(s, idx + 1, Append(cur, s[idx]), acc)

split(s) == SplitFrom(s, 1, <<>>, <<>>)

\* the length in bytes, value.len(), in place of the number of characters
chars_count_Bytes(s) == Len(s) + Cardinality({x \in DOMAIN s : len_utf8(s[x]) > 1})

chars_count(s) == Len(s)

RECURSIVE ByteOffsets(_, _, _, _)
ByteOffsets(s, idx, off, acc) ==
    IF idx > Len(s) THEN acc
    ELSE ByteOffsets(s, idx + 1, off + len_utf8(s[idx]), Append(acc, <<off, s[idx]>>))

\* pairs <<byte offset, char>>
char_indices(s) == ByteOffsets(s, 1, 0, <<>>)

RECURSIVE GraphemesFrom(_, _, _)
GraphemesFrom(row, idx, acc) ==
    IF idx > Len(row) THEN acc
    ELSE IF IsExtend(row[idx]) /\ Len(acc) > 0
         THEN GraphemesFrom(row, idx + 1,
                 [acc EXCEPT ![Len(acc)] = Append(acc[Len(acc)], row[idx])])
         ELSE GraphemesFrom(row, idx + 1, Append(acc, <<row[idx]>>))

\* the extended grapheme clusters of one row, each a sequence of characters
graphemes(row) == GraphemesFrom(row, 1, <<>>)

(***************************************************************************)
(* Puzzle::identify_slots                                                  *)
(***************************************************************************)
SlotCoords(start, stop, k) == [r |-> [start |-> start, end |-> stop], k |-> k]

\* grid.rows() / grid.columns(): the lanes of the grid, each a sequence of Squares
GridRows(grid) == [k \in 1..grid.nrows |-> [x \in 1..grid.ncols |-> grid.sq[<<k - 1, x - 1>>]]]
GridColumns(grid) == [k \in 1..grid.ncols |-> [x \in 1..grid.nrows |-> grid.sq[<<x - 1, k - 1>>]]]

RECURSIVE FirstFillable(_, _)
FirstFillable(rowcol, start) ==
    IF start < Len(rowcol) /\ is_none(rowcol[start + 1])
    THEN FirstFillable(rowcol, start + 1) ELSE start

\* LastFillable that advances over a single square
LastFillable_OneSquare(rowcol, stop) ==
    IF stop < Len(rowcol) THEN stop + 1 ELSE stop

RECURSIVE LastFillable(_, _)
LastFillable(rowcol, stop) ==
    IF stop < Len(rowcol) /\ ~is_none(rowcol[stop + 1])
    THEN LastFillable(rowcol, stop + 1) ELSE stop

RECURSIVE ScanRowCol(_, _, _, _)
ScanRowCol(rowcol, k, stop, slots) ==
    IF stop < Len(rowcol)
    THEN LET start == FirstFillable(rowcol, stop)
             stop2 == LastFillable(rowcol, start)
             pushed == IF start # stop2 THEN Append(slots, SlotCoords(start, stop2, k))
                       ELSE slots
         IN ScanRowCol(rowcol, k, stop2 + 1, pushed)
    ELSE slots

RECURSIVE ScanLanes(_, _, _)
ScanLanes(rows_or_cols, idx, slots) ==
    IF idx > Len(rows_or_cols) THEN slots
    ELSE ScanLanes(rows_or_cols, idx + 1,
                   ScanRowCol(rows_or_cols[idx], idx - 1, 0, slots))

\* identify_slots returning the pair in the order the lists were declared
identify_slots_Swapped(grid) ==
    [acrosses |-> ScanLanes(GridColumns(grid), 1, <<>>),
     downs    |-> ScanLanes(GridRows(grid), 1, <<>>)]

identify_slots(grid) ==
    [acrosses |-> ScanLanes(GridRows(grid), 1, <<>>),
     downs    |-> ScanLanes(GridColumns(grid), 1, <<>>)]

(***************************************************************************)
(* Puzzle::parse                                                           *)
(***************************************************************************)
RowTooLong == "a row has too many characters"
RowTooShort == "a row has too few characters"
MultiCodepointGrapheme == "crossword puzzle can't contain a grapheme cluster composed of more than 1 unicode character"

from_elem(nrows, ncols) ==
    [nrows |-> nrows, ncols |-> ncols,
     sq |-> [p \in (0..nrows - 1) \X (0..ncols - 1) |-> None]]

\* ParseGraphemes without the check that follows the loop
RECURSIVE ParseGraphemes_NoShortCheck(_, _, _, _, _)
ParseGraphemes_NoShortCheck(gs, g, i, j, grid) ==
    IF g > Len(gs) THEN [tag |-> "Ok", grid |-> grid]
    ELSE IF j = grid.ncols THEN [tag |-> "Err", err |-> RowTooLong]
    ELSE IF Len(gs[g]) > 1 THEN [tag |-> "Err", err |-> MultiCodepointGrapheme]
    ELSE LET chr == gs[g][1]
             square == IF chr = BLOCKED_CHAR THEN None ELSE Some(chr)
         IN ParseGraphemes_NoShortCheck(gs, g + 1, i, j + 1,
                [grid EXCEPT !.sq[<<i, j>>] = square])

\* ParseGraphemes storing the square at grid[[j, i]]
RECURSIVE ParseGraphemes_Transposed(_, _, _, _, _)
ParseGraphemes_Transposed(gs, g, i, j, grid) ==
    IF g > Len(gs)
    THEN IF j # grid.ncols THEN [tag |-> "Err", err |-> RowTooShort]
         ELSE [tag |-> "Ok", grid |-> grid]
    ELSE IF j = grid.ncols THEN [tag |-> "Err", err |-> RowTooLong]
    ELSE IF Len(gs[g]) > 1 THEN [tag |-> "Err", err |-> MultiCodepointGrapheme]
    ELSE LET chr == gs[g][1]
             square == IF chr = BLOCKED_CHAR THEN None ELSE Some(chr)
         IN ParseGraphemes_Transposed(gs, g + 1, i, j + 1,
                [grid EXCEPT !.sq = [q \in DOMAIN grid.sq |->
                                        IF q = <<j, i>> THEN square ELSE grid.sq[q]]])

\* ParseGraphemes looking at the size of the grapheme before the column count
RECURSIVE ParseGraphemes_MultiFirst(_, _, _, _, _)
ParseGraphemes_MultiFirst(gs, g, i, j, grid) ==
    IF g > Len(gs)
    THEN IF j # grid.ncols THEN [tag |-> "Err", err |-> RowTooShort]
         ELSE [tag |-> "Ok", grid |-> grid]
    ELSE IF Len(gs[g]) > 1 THEN [tag |-> "Err", err |-> MultiCodepointGrapheme]
    ELSE IF j = grid.ncols THEN [tag |-> "Err", err |-> RowTooLong]
    ELSE LET chr == gs[g][1]
             square == IF chr = BLOCKED_CHAR THEN None ELSE Some(chr)
         IN ParseGraphemes_MultiFirst(gs, g + 1, i, j + 1,
                [grid EXCEPT !.sq[<<i, j>>] = square])

\* the inner for loop over the graphemes of row i, from grapheme number g on
RECURSIVE ParseGraphemes(_, _, _, _, _)
ParseGraphemes(gs, g, i, j, grid) ==
    IF g > Len(gs)
    THEN IF j # grid.ncols THEN [tag |-> "Err", err |-> RowTooShort]
         ELSE [tag |-> "Ok", grid |-> grid]
    ELSE IF j = grid.ncols THEN [tag |-> "Err", err |-> RowTooLong]
    ELSE IF Len(gs[g]) > 1 THEN [tag |-> "Err", err |-> MultiCodepointGrapheme]
    ELSE LET chr == gs[g][1]
             square == IF chr = BLOCKED_CHAR THEN None ELSE Some(chr)
         IN ParseGraphemes(gs, g + 1, i, j + 1,
                [grid EXCEPT !.sq[<<i, j>>] = square])

\* the outer for loop over the rows
RECURSIVE ParseRows(_, _, _)
ParseRows(v, i, grid) ==
    IF i >= grid.nrows THEN [tag |-> "Ok", grid |-> grid]
    ELSE LET res == ParseGraphemes(graphemes(v[i + 1]), 1, i, 0, grid)
         IN IF res.tag = "Err" THEN res ELSE ParseRows(v, i + 1, res.grid)

parse(s) ==
    LET v == split(s)
        ncols == Len(graphemes(v[1]))
        nrows == Len(v)
        res == ParseRows(v, 0, from_elem(nrows, ncols))
    IN IF res.tag = "Err" THEN res
       ELSE LET slots == identify_slots(res.grid)
            IN [tag |-> "Ok",
                puzzle |-> [grid |-> res.grid,
                            acrosses |-> slots.acrosses,
                            downs |-> slots.downs]]

(***************************************************************************)
(* Slots: Puzzle::nacross, ndown, nslots, access; Slot::len, Index,        *)
(* String::from(Slot)                                                      *)
(***************************************************************************)
IndexTooLarge == "The index is too large!"
WrongLength == "value doesn't have the correct length"
EmptySquare == "A slot instance should not hold an empty Square"
OutOfBounds == "ndarray: index out of bounds"

nacross(p) == Len(p.acrosses)
ndown(p) == Len(p.downs)
nslots(p) == nacross(p) + ndown(p)

\* grid.slice(s![coords.k, coords.r]): the squares <<row, column>> of the view, in order
slice_row(coords) == [x \in 1..(coords.r.end - coords.r.start) |-> <<coords.k, coords.r.start + x - 1>>]
\* grid.slice(s![coords.r, coords.k])
slice_col(coords) == [x \in 1..(coords.r.end - coords.r.start) |-> <<coords.r.start + x - 1, coords.k>>]

\* access slicing a down slot along its row
access_RowOnly(p, i) ==
    IF i < nacross(p) THEN [tag |-> "Ok", view |-> slice_row(p.acrosses[i + 1])]
    ELSE IF i < nslots(p) THEN [tag |-> "Ok", view |-> slice_row(p.downs[i - nacross(p) + 1])]
    ELSE [tag |-> "Panic", msg |-> IndexTooLarge]

access(p, i) ==
    IF i < nacross(p) THEN [tag |-> "Ok", view |-> slice_row(p.acrosses[i + 1])]
    ELSE IF i < nslots(p) THEN [tag |-> "Ok", view |-> slice_col(p.downs[i - nacross(p) + 1])]
    ELSE [tag |-> "Panic", msg |-> IndexTooLarge]

slot_len(view) == Len(view)

\* slot[index] on a view into puzzle p
slot_index(p, view, index) ==
    IF index >= Len(view) THEN [tag |-> "Panic", msg |-> OutOfBounds]
    ELSE IF p.grid.sq[view[index + 1]] # None
         THEN [tag |-> "Ok", chr |-> p.grid.sq[view[index + 1]][1]]
         ELSE [tag |-> "Panic", msg |-> EmptySquare]

\* String::from(slot)
slot_to_string(p, view) ==
    IF \E x \in 1..Len(view) : p.grid.sq[view[x]] = None
    THEN [tag |-> "Panic", msg |-> EmptySquare]
    ELSE [tag |-> "Ok", str |-> [x \in 1..Len(view) |-> p.grid.sq[view[x]][1]]]

(***************************************************************************)
(* Puzzle::with_filled_slot.  Puzzles live in a store (heap) of values     *)
(* addressed by their position; self.clone() appends a deep copy.          *)
(***************************************************************************)
clone(h, self) == Append(h, h[self])

\* WriteChars storing '.' as a blocked square, the way parse reads it
RECURSIVE WriteChars_BlockDot(_, _, _, _, _)
WriteChars_BlockDot(h, target, view, cis, n) ==
    IF n > Len(cis) THEN [tag |-> "Ok", heap |-> h]
    ELSE LET j == cis[n][1]
             chr == cis[n][2]
         IN IF j >= Len(view) THEN [tag |-> "Panic", msg |-> OutOfBounds]
            ELSE WriteChars_BlockDot(
                    [h EXCEPT ![target].grid.sq[view[j + 1]] =
                                  IF chr = BLOCKED_CHAR THEN None ELSE Some(chr)],
                    target, view, cis, n + 1)

\* for (j, chr) in value.char_indices() { view[j] = Some(chr) }, from pair number n on,
\* writing through the view into the grid of puzzle number target
RECURSIVE WriteChars(_, _, _, _, _)
WriteChars(h, target, view, cis, n) ==
    IF n > Len(cis) THEN [tag |-> "Ok", heap |-> h]
    ELSE LET j == cis[n][1]
             chr == cis[n][2]
         IN IF j >= Len(view) THEN [tag |-> "Panic", msg |-> OutOfBounds]
            ELSE WriteChars([h EXCEPT ![target].grid.sq[view[j + 1]] = Some(chr)],
                            target, view, cis, n + 1)

\* FillCopy taking a row view for a down slot as well
FillCopy_RowView(h, self, copy, i, value) ==
    LET slot == access(h[copy], i)
    IN IF slot.tag = "Panic" THEN slot
       ELSE IF chars_count(value) # slot_len(slot.view)
            THEN [tag |-> "Panic", msg |-> WrongLength]
       ELSE LET view == IF i < nacross(h[self])
                        THEN slice_row(h[copy].acrosses[i + 1])
                        ELSE slice_row(h[self].downs[i - nacross(h[self]) + 1])
                res == WriteChars(h, copy, view, char_indices(value), 1)
            IN IF res.tag = "Panic" THEN res
               ELSE [tag |-> "Ok", heap |-> res.heap, ret |-> copy]

\* the body of with_filled_slot, with the copy stored at position copy of h
FillCopy(h, self, copy, i, value) ==
    LET slot == access(h[copy], i)
    IN IF slot.tag = "Panic" THEN slot
       ELSE IF chars_count(value) # slot_len(slot.view)
            THEN [tag |-> "Panic", msg |-> WrongLength]
       ELSE LET view == IF i < nacross(h[self])
                        THEN slice_row(h[copy].acrosses[i + 1])
                        ELSE slice_col(h[self].downs[i - nacross(h[self]) + 1])
                res == WriteChars(h, copy, view, char_indices(value), 1)
            IN IF res.tag = "Panic" THEN res
               ELSE [tag |-> "Ok", heap |-> res.heap, ret |-> copy]

\* with_filled_slot writing through a view of self's grid instead of the copy's
with_filled_slot_InPlace(h, self, i, value) ==
    LET res == FillCopy(clone(h, self), self, self, i, value)
    IN IF res.tag = "Ok" THEN [res EXCEPT !.ret = Len(h) + 1] ELSE res

\* result: the store after the call and the position of the returned puzzle,
\* or the panic that unwound the call (the copy is dropped with the frame)
with_filled_slot(h, self, i, value) ==
    FillCopy(clone(h, self), self, Len(h) + 1, i, value)

(***************************************************************************)
(* Lexicon (src/lexicon.rs)                                                *)
(***************************************************************************)
\* String::len: the length in bytes
RECURSIVE byte_len(_)
byte_len(w) == IF w = <<>> THEN 0 ELSE len_utf8(Head(w)) + byte_len(Tail(w))

str_to_ascii_uppercase(w) == [x \in DOMAIN w |-> to_ascii_uppercase(w[x])]

\* Lexicon::empty
empty == [words |-> << <<>> >>, empty_set |-> <<>>]

\* words.iter().map(|word| word.len()).max().unwrap_or(0)
RECURSIVE MaxByteLen(_, _, _)
MaxByteLen(ws, n, m) ==
    IF n > Len(ws) THEN m
    ELSE MaxByteLen(ws, n + 1, IF byte_len(ws[n]) > m THEN byte_len(ws[n]) ELSE m)

\* FillBuckets without the is_ascii test
RECURSIVE FillBuckets_KeepNonAscii(_, _, _)
FillBuckets_KeepNonAscii(ws, n, words_by_len) ==
    IF n > Len(ws) THEN words_by_len
    ELSE LET word == str_to_ascii_uppercase(ws[n])
         IN FillBuckets_KeepNonAscii(ws, n + 1,
               [words_by_len EXCEPT ![byte_len(word) + 1] = Append(@, word)])

\* the for loop of from_words, from word number n on
RECURSIVE FillBuckets(_, _, _)
FillBuckets(ws, n, words_by_len) ==
    IF n > Len(ws) THEN words_by_len
    ELSE IF ~(\A x \in DOMAIN ws[n] : is_ascii(ws[n][x]))
         THEN FillBuckets(ws, n + 1, words_by_len)
         ELSE LET word == str_to_ascii_uppercase(ws[n])
              IN FillBuckets(ws, n + 1,
                    [words_by_len EXCEPT ![byte_len(word) + 1] = Append(@, word)])

from_words(ws) ==
    LET max_length == MaxByteLen(ws, 1, 0)
    IN [words |-> FillBuckets(ws, 1, [b \in 1..(max_length + 1) |-> <<>>]),
        empty_set |-> <<>>]

words_by_length(lex, length) ==
    IF length >= Len(lex.words) THEN lex.empty_set ELSE lex.words[length + 1]

\* WordMatches comparing the slot character as it stands
RECURSIVE WordMatches_NoUppercase(_, _, _, _)
WordMatches_NoUppercase(p, view, word, i) ==
    IF i >= Len(word) THEN [tag |-> "Ok", matches |-> TRUE]
    ELSE LET sl == slot_index(p, view, i)
         IN IF sl.tag = "Panic" THEN sl
            ELSE IF sl.chr # BLANK_CHAR /\ sl.chr # word[i + 1]
                 THEN [tag |-> "Ok", matches |-> FALSE]
                 ELSE WordMatches_NoUppercase(p, view, word, i + 1)

\* the inner for loop of possible_answers over the characters of word, from
\* character number i on
RECURSIVE WordMatches(_, _, _, _)
WordMatches(p, view, word, i) ==
    IF i >= Len(word) THEN [tag |-> "Ok", matches |-> TRUE]
    ELSE LET sl == slot_index(p, view, i)
         IN IF sl.tag = "Panic" THEN sl
            ELSE IF sl.chr # BLANK_CHAR /\ to_ascii_uppercase(sl.chr) # word[i + 1]
                 THEN [tag |-> "Ok", matches |-> FALSE]
                 ELSE WordMatches(p, view, word, i + 1)

\* the outer for loop of possible_answers, from word number n of the bucket on
RECURSIVE CollectAnswers(_, _, _, _, _)
CollectAnswers(p, view, bucket, n, answers_) ==
    IF n > Len(bucket) THEN [tag |-> "Ok", answers |-> answers_]
    ELSE LET m == WordMatches(p, view, bucket[n], 0)
         IN IF m.tag = "Panic" THEN m
            ELSE CollectAnswers(p, view, bucket, n + 1,
                    IF m.matches THEN Append(answers_, bucket[n]) ELSE answers_)

\* possible_answers on a slot view into puzzle p
possible_answers(lex, p, view) ==
    CollectAnswers(p, view, words_by_length(lex, slot_len(view)), 1, <<>>)

(***************************************************************************)
(* State machine                                                           *)
(***************************************************************************)
NoCall == [op |-> "none", self |-> 0, i |-> 0, value |-> <<>>,
           outcome |-> "none", msg |-> "", ret |-> 0, str |-> <<>>]

\* no Lexicon has been constructed yet
NoLexicon == [words |-> <<>>, empty_set |-> <<"none">>]

InitCommon ==
    /\ pc = "start"
    /\ err = ""
    /\ heap = <<>>
    /\ last = NoCall
    /\ words = <<>>
    /\ lexicon = NoLexicon
    /\ answers = <<>>

RECURSIVE JoinRows(_, _)
JoinRows(rows, n) ==
    IF n = 0 THEN <<>>
    ELSE IF n = 1 THEN rows[1]
    ELSE JoinRows(rows, n - 1) \o <<NEWLINE>> \o rows[n]

\* the texts of the rectangular grids of the given shapes
GridTexts(shapes) ==
    UNION { { JoinRows(rows, shape[1]) : rows \in [1..shape[1] -> [1..shape[2] -> GridAlphabet]] }
            : shape \in shapes }

Init ==
    /\ text \in GridTexts(FillShapes)
    /\ InitCommon

\* let puzzle = Puzzle::parse(text)
Parse ==
    /\ pc = "start"
    /\ LET res == parse(text)
       IN IF res.tag = "Ok"
          THEN /\ heap' = <<res.puzzle>>
               /\ pc' = "ready"
               /\ err' = err
          ELSE /\ heap' = heap
               /\ pc' = "failed"
               /\ err' = res.err
    /\ UNCHANGED <<text, last, words, lexicon, answers>>

\* String::from(heap[self].access(i))
Access(self, i) ==
    /\ pc = "ready"
    /\ LET slot == access(heap[self], i)
           res == IF slot.tag = "Panic" THEN slot ELSE slot_to_string(heap[self], slot.view)
       IN IF res.tag = "Ok"
          THEN /\ last' = [NoCall EXCEPT !.op = "access", !.self = self, !.i = i,
                                         !.outcome = "Ok", !.str = res.str]
               /\ pc' = "returned"
          ELSE /\ last' = [NoCall EXCEPT !.op = "access", !.self = self, !.i = i,
                                         !.outcome = "Panic", !.msg = res.msg]
               /\ pc' = "panicked"
    /\ UNCHANGED <<text, err, heap, words, lexicon, answers>>

\* let q = heap[self].with_filled_slot(i, value)
WithFilledSlot(self, i, value) ==
    /\ pc = "ready"
    /\ Len(heap) < MaxPuzzles
    /\ LET res == with_filled_slot(heap, self, i, value)
       IN IF res.tag = "Ok"
          THEN /\ heap' = res.heap
               /\ last' = [NoCall EXCEPT !.op = "with_filled_slot", !.self = self, !.i = i,
                                         !.value = value, !.outcome = "Ok", !.ret = res.ret]
               /\ pc' = "returned"
          ELSE /\ heap' = heap
               /\ last' = [NoCall EXCEPT !.op = "with_filled_slot", !.self = self, !.i = i,
                                         !.value = value, !.outcome = "Panic", !.msg = res.msg]
               /\ pc' = "panicked"
    /\ UNCHANGED <<text, err, words, lexicon, answers>>

\* the caller is done with the value the last call returned and goes on
Continue ==
    /\ pc = "returned"
    /\ pc' = "ready"
    /\ last' = NoCall
    /\ UNCHANGED <<text, err, heap, words, lexicon, answers>>

\* slot indices a caller may pass: every valid one and one past the end
Indices(p) == 0..nslots(p)

Values == SeqsUpTo(ValueAlphabet, MaxValLen)

Next ==
    \/ Parse
    \/ \E self \in DOMAIN heap : \E i \in Indices(heap[self]) : Access(self, i)
    \/ \E self \in DOMAIN heap : \E i \in Indices(heap[self]) : \E value \in Values :
          WithFilledSlot(self, i, value)
    \/ Continue

Spec == Init /\ [][Next]_vars

(***************************************************************************)
(* Parsing and slot extraction alone, over free-form texts and over the    *)
(* texts of larger rectangular grids                                       *)
(***************************************************************************)
InitParse ==
    /\ text \in SeqsUpTo(TextAlphabet, MaxTextLen) \cup GridTexts((1..MaxRows) \X (1..MaxCols))
    /\ InitCommon

NextParse == Parse

SpecParse == InitParse /\ [][NextParse]_vars

(***************************************************************************)
(* Lexicon construction and query over the slots of one-row puzzles        *)
(***************************************************************************)
InitLex ==
    /\ text \in SeqsUpTo(PatternAlphabet, LexTextLen) \ {<<>>}
    /\ pc = "start"
    /\ err = ""
    /\ heap = <<>>
    /\ last = NoCall
    /\ words \in SeqsUpTo(Vocabulary, MaxWords)
    /\ lexicon = NoLexicon
    /\ answers = <<>>

\* let lexicon = Lexicon::from_words(words)
FromWords ==
    /\ pc = "ready"
    /\ lexicon = NoLexicon
    /\ lexicon' = from_words(words)
    /\ UNCHANGED <<text, pc, err, heap, last, words, answers>>

\* let lexicon = Lexicon::empty(), by a caller that has no words
EmptyLexicon ==
    /\ pc = "ready"
    /\ lexicon = NoLexicon
    /\ words = <<>>
    /\ lexicon' = empty
    /\ UNCHANGED <<text, pc, err, heap, last, words, answers>>

\* lexicon.possible_answers(&heap[self].access(i))
PossibleAnswers(self, i) ==
    /\ pc = "ready"
    /\ lexicon # NoLexicon
    /\ i < nslots(heap[self])
    /\ LET res == possible_answers(lexicon, heap[self], access(heap[self], i).view)
       IN IF res.tag = "Ok"
          THEN /\ answers' = res.answers
               /\ last' = [NoCall EXCEPT !.op = "possible_answers", !.self = self, !.i = i,
                                         !.outcome = "Ok"]
               /\ pc' = "returned"
          ELSE /\ answers' = answers
               /\ last' = [NoCall EXCEPT !.op = "possible_answers", !.self = self, !.i = i,
                                         !.outcome = "Panic", !.msg = res.msg]
               /\ pc' = "panicked"
    /\ UNCHANGED <<text, err, heap, words, lexicon>>

\* lexicon.words_by_length(length)
WordsByLength(length) ==
    /\ pc = "ready"
    /\ lexicon # NoLexicon
    /\ answers' = words_by_length(lexicon, length)
    /\ last' = [NoCall EXCEPT !.op = "words_by_length", !.i = length, !.outcome = "Ok"]
    /\ pc' = "returned"
    /\ UNCHANGED <<text, err, heap, words, lexicon>>

\* the lengths asked of a lexicon: every bucket and two lengths past the last
Lengths(lex) == 0..(Len(lex.words) + 1)

NextLex ==
    \/ Parse
    \/ FromWords
    \/ EmptyLexicon
    \/ \E length \in Lengths(lexicon) : WordsByLength(length)
    \/ \E self \in DOMAIN heap : \E i \in Indices(heap[self]) : PossibleAnswers(self, i)

SpecLex == InitLex /\ [][NextLex]_vars

(***************************************************************************)
(* Properties of slot extraction                                           *)
(***************************************************************************)
Open(grid, r, c) == grid.sq[<<r, c>>] # None
InGrid(grid, r, c) == r \in 0..(grid.nrows - 1) /\ c \in 0..(grid.ncols - 1)

\* the square number x of a slot lying along a row (across) or a column (down)
AcrossSquare(coords, x) == <<coords.k, x>>
DownSquare(coords, x) == <<x, coords.k>>

NonExtendableAcross(grid, coords) ==
    /\ coords.r.start < coords.r.end
    /\ \A x \in coords.r.start..(coords.r.end - 1) :
          InGrid(grid, coords.k, x) /\ Open(grid, coords.k, x)
    /\ ~(InGrid(grid, coords.k, coords.r.start - 1) /\ Open(grid, coords.k, coords.r.start - 1))
    /\ ~(InGrid(grid, coords.k, coords.r.end) /\ Open(grid, coords.k, coords.r.end))

NonExtendableDown(grid, coords) ==
    /\ coords.r.start < coords.r.end
    /\ \A x \in coords.r.start..(coords.r.end - 1) :
          InGrid(grid, x, coords.k) /\ Open(grid, x, coords.k)
    /\ ~(InGrid(grid, coords.r.start - 1, coords.k) /\ Open(grid, coords.r.start - 1, coords.k))
    /\ ~(InGrid(grid, coords.r.end, coords.k) /\ Open(grid, coords.r.end, coords.k))

\* C1: every slot of a parsed puzzle is a non-empty range of open squares
\* that cannot be extended at either end.
C1_SlotsNonExtendable ==
    heap # <<>> =>
        LET p == heap[1]
        IN /\ \A n \in DOMAIN p.acrosses : NonExtendableAcross(p.grid, p.acrosses[n])
           /\ \A n \in DOMAIN p.downs : NonExtendableDown(p.grid, p.downs[n])

\* an across slot closed by blocked squares on both sides, and a down slot
\* closed by a blocked square above and the grid edge below
C1_Witness ==
    /\ pc = "ready"
    /\ \E n \in DOMAIN heap[1].acrosses :
          LET c == heap[1].acrosses[n]
          IN c.r.start > 0 /\ c.r.end < heap[1].grid.ncols
    /\ \E n \in DOMAIN heap[1].downs :
          LET c == heap[1].downs[n]
          IN c.r.start > 0 /\ c.r.end = heap[1].grid.nrows

\* the maximal runs of open squares of a lane of n squares, open(x) telling
\* whether square x of the lane is open
MaximalRuns(n, open(_)) ==
    { ab \in (0..n) \X (0..n) :
        /\ ab[1] < ab[2]
        /\ \A x \in ab[1]..(ab[2] - 1) : open(x)
        /\ (ab[1] = 0 \/ ~open(ab[1] - 1))
        /\ (ab[2] = n \/ ~open(ab[2])) }

AllAcrossRuns(grid) ==
    UNION { LET open(x) == Open(grid, k, x)
            IN { SlotCoords(ab[1], ab[2], k) : ab \in MaximalRuns(grid.ncols, open) }
            : k \in 0..(grid.nrows - 1) }

AllDownRuns(grid) ==
    UNION { LET open(x) == Open(grid, x, k)
            IN { SlotCoords(ab[1], ab[2], k) : ab \in MaximalRuns(grid.nrows, open) }
            : k \in 0..(grid.ncols - 1) }

\* lane-major order: by lane, then by start within a lane
Before(c1, c2) == c1.k < c2.k \/ (c1.k = c2.k /\ c1.r.start < c2.r.start)

ExactlyInOrder(slots, runs) ==
    /\ {slots[n] : n \in DOMAIN slots} = runs
    /\ \A m, n \in DOMAIN slots : m < n => Before(slots[m], slots[n])

\* C2: the across list is exactly the maximal runs of the rows, each once, in
\* row-major order, and the down list exactly the maximal runs of the
\* columns, each once, in column-major order; runs of length 1 included.
C2_SlotListsExact ==
    heap # <<>> =>
        LET p == heap[1]
        IN /\ ExactlyInOrder(p.acrosses, AllAcrossRuns(p.grid))
           /\ ExactlyInOrder(p.downs, AllDownRuns(p.grid))

\* two across slots in one row, across slots in two rows, and a down slot of
\* length 1
C2_Witness ==
    /\ pc = "ready"
    /\ \E m, n \in DOMAIN heap[1].acrosses :
          m < n /\ heap[1].acrosses[m].k = heap[1].acrosses[n].k
    /\ \E m, n \in DOMAIN heap[1].acrosses :
          heap[1].acrosses[m].k < heap[1].acrosses[n].k
    /\ \E m, n \in DOMAIN heap[1].downs :
          /\ heap[1].downs[m].k < heap[1].downs[n].k
          /\ heap[1].downs[n].r.end - heap[1].downs[n].r.start = 1

(***************************************************************************)
(* Properties of slot access and of with_filled_slot                       *)
(***************************************************************************)
\* the coordinates a global slot index addresses
CoordsOf(p, i) ==
    IF i < Len(p.acrosses) THEN p.acrosses[i + 1] ELSE p.downs[i - Len(p.acrosses) + 1]

\* the square at position j of the slot with global index i
SquareOf(p, i, j) ==
    IF i < Len(p.acrosses)
    THEN AcrossSquare(CoordsOf(p, i), CoordsOf(p, i).r.start + j)
    ELSE DownSquare(CoordsOf(p, i), CoordsOf(p, i).r.start + j)

LengthOf(p, i) == CoordsOf(p, i).r.end - CoordsOf(p, i).r.start

\* the characters held by the squares of slot i, read off the grid
ContentOf(p, i) == [x \in 1..LengthOf(p, i) |-> p.grid.sq[SquareOf(p, i, x - 1)][1]]

\* C3: nslots is nacross + ndown, and access(i) views exactly the squares of
\* acrosses[i], or of downs[i - nacross] from nacross on, in slot order (stated
\* of the newest puzzle of the store, which every puzzle once was, and of the
\* string an access has just read).
C3_AccessAddressesSlot ==
    /\ heap # <<>> =>
          LET p == heap[Len(heap)]
          IN /\ nslots(p) = Len(p.acrosses) + Len(p.downs)
             /\ \A i \in 0..(nslots(p) - 1) :
                   /\ access(p, i).tag = "Ok"
                   /\ slot_len(access(p, i).view) = LengthOf(p, i)
                   /\ \A j \in 0..(LengthOf(p, i) - 1) :
                         access(p, i).view[j + 1] = SquareOf(p, i, j)
    /\ (last.op = "access" /\ last.i < nslots(heap[last.self])) =>
          /\ last.outcome = "Ok"
          /\ last.str = ContentOf(heap[last.self], last.i)

\* a down slot of two squares has been read through access
C3_Witness ==
    /\ last.op = "access"
    /\ last.outcome = "Ok"
    /\ last.i >= nacross(heap[last.self])
    /\ nacross(heap[last.self]) > 0
    /\ Len(last.str) = 2

\* C4 (as claimed): an index at or past nslots is answered by an
\* IndexOutOfRange failure result handed to the caller, never by a panic.
C4_IndexOutOfRangeReported ==
    (last.op \in {"access", "with_filled_slot"} /\ last.i >= nslots(heap[last.self])) =>
        /\ last.outcome = "Err"
        /\ last.msg = "IndexOutOfRange"
        /\ pc # "panicked"

\* C5: no call of with_filled_slot, on the parsed puzzle or on a puzzle
\* derived from it, changes any puzzle that existed before the call.
C5_CopyOnWrite ==
    [][/\ \A j \in DOMAIN heap :
             /\ j \in DOMAIN heap'
             /\ heap'[j].grid = heap[j].grid
             /\ heap'[j].acrosses = heap[j].acrosses
             /\ heap'[j].downs = heap[j].downs
       /\ last'.op = "with_filled_slot" =>
             \A i \in 0..(nslots(heap[last'.self]) - 1) :
                slot_to_string(heap'[last'.self], access(heap'[last'.self], i).view)
                    = slot_to_string(heap[last'.self], access(heap[last'.self], i).view)]_vars

\* a puzzle derived from a derived puzzle exists and differs from both
C5_Witness ==
    /\ last.op = "with_filled_slot"
    /\ last.outcome = "Ok"
    /\ last.self = 2
    /\ last.ret = 3
    /\ heap[3].grid # heap[2].grid
    /\ heap[2].grid # heap[1].grid

\* C6 (as claimed): a value with as many characters as slot i has squares is
\* written character by character, multi-byte characters included, so that
\* the returned puzzle reads back the value at slot i.
C6_FillWritesValue ==
    (/\ last.op = "with_filled_slot"
     /\ last.i < nslots(heap[last.self])
     /\ Len(last.value) = LengthOf(heap[last.self], last.i)) =>
        /\ last.outcome = "Ok"
        /\ last.ret \in DOMAIN heap
        /\ ContentOf(heap[last.ret], last.i) = last.value

\* C7: a value whose character count differs from the length of slot i is
\* rejected for its length, no puzzle is produced and the store is unchanged.
C7_LengthMismatchRejected ==
    [][(/\ last'.op = "with_filled_slot"
        /\ last'.i < nslots(heap[last'.self])
        /\ Len(last'.value) # LengthOf(heap[last'.self], last'.i)) =>
          /\ last'.outcome = "Panic"
          /\ last'.msg = WrongLength
          /\ last'.ret = 0
          /\ heap' = heap]_vars

\* a one-character, two-byte value was offered to a slot of two squares
C7_Witness ==
    /\ last.op = "with_filled_slot"
    /\ last.outcome = "Panic"
    /\ last.msg = WrongLength
    /\ last.value = <<233>>
    /\ LengthOf(heap[last.self], last.i) = 2

(***************************************************************************)
(* Properties of parsing                                                   *)
(***************************************************************************)
Newlines(t) == {x \in DOMAIN t : t[x] = NEWLINE}

\* the pieces of t between newline characters: one more than there are newlines
PieceCount(t) == 1 + Cardinality(Newlines(t))

\* the positions of t that belong to piece n
PiecePositions(t, n) ==
    {x \in DOMAIN t : t[x] # NEWLINE /\ Cardinality({y \in Newlines(t) : y < x}) = n - 1}

Piece(t, n) ==
    LET pos == PiecePositions(t, n)
    IN [x \in 1..Cardinality(pos) |-> t[(CHOOSE m \in pos : \A o \in pos : m <= o) + x - 1]]

\* a grapheme starts at the first character of a row and at every character
\* that is not a combining mark
GraphemeCount(row) == Cardinality({x \in DOMAIN row : x = 1 \/ ~IsExtend(row[x])})

SingleCodepoints(row) == \A x \in DOMAIN row : x > 1 => ~IsExtend(row[x])

Accepted(t) ==
    \A n \in 1..PieceCount(t) :
        /\ GraphemeCount(Piece(t, n)) = GraphemeCount(Piece(t, 1))
        /\ SingleCodepoints(Piece(t, n))

\* C8: parse succeeds exactly when every row has as many graphemes as the
\* first and every grapheme is one codepoint; a success yields a grid of one
\* row per piece and that many columns, a failure yields an error and no grid.
C8_ParseAllOrNothing ==
    pc \in {"ready", "failed"} =>
        /\ pc = "ready" <=> Accepted(text)
        /\ pc = "ready" =>
              /\ Len(heap) = 1
              /\ err = ""
              /\ heap[1].grid.nrows = PieceCount(text)
              /\ heap[1].grid.ncols = GraphemeCount(Piece(text, 1))
              /\ DOMAIN heap[1].grid.sq =
                    (0..(PieceCount(text) - 1)) \X (0..(GraphemeCount(Piece(text, 1)) - 1))
        /\ pc = "failed" =>
              /\ heap = <<>>
              /\ err \in {RowTooLong, RowTooShort, MultiCodepointGrapheme}

\* a text ending in a newline was accepted: its rows hold no grapheme
C8_Witness ==
    /\ pc = "ready"
    /\ Len(text) > 0
    /\ text[Len(text)] = NEWLINE
    /\ heap[1].grid.nrows = 2
    /\ heap[1].grid.ncols = 0

\* C9: square (r, c) is blocked exactly when grapheme c of row r is '.', and
\* holds that character otherwise; every slot reads back the run of characters
\* of the text at its coordinates.
C9_RoundTrip ==
    pc = "ready" =>
        LET p == heap[1]
        IN /\ \A r \in 0..(p.grid.nrows - 1) : \A c \in 0..(p.grid.ncols - 1) :
                 LET chr == Piece(text, r + 1)[c + 1]
                 IN /\ p.grid.sq[<<r, c>>] = None <=> chr = BLOCKED_CHAR
                    /\ chr # BLOCKED_CHAR => p.grid.sq[<<r, c>>] = Some(chr)
           /\ \A i \in 0..(nslots(p) - 1) :
                 LET coords == CoordsOf(p, i)
                     run == [x \in 1..(coords.r.end - coords.r.start) |->
                               IF i < nacross(p)
                               THEN Piece(text, coords.k + 1)[coords.r.start + x]
                               ELSE Piece(text, coords.r.start + x)[coords.k + 1]]
                     read == slot_to_string(p, access(p, i).view)
                 IN read.tag = "Ok" /\ read.str = run

\* a blocked square, and a down slot reading two different letters
C9_Witness ==
    /\ pc = "ready"
    /\ \E q \in DOMAIN heap[1].grid.sq : heap[1].grid.sq[q] = None
    /\ \E i \in nacross(heap[1])..(nslots(heap[1]) - 1) :
          /\ LengthOf(heap[1], i) = 2
          /\ ContentOf(heap[1], i)[1] # ContentOf(heap[1], i)[2]

(***************************************************************************)
(* Properties of the lexicon                                               *)
(***************************************************************************)
LexiconWords(lex) == UNION { {lex.words[b][n] : n \in DOMAIN lex.words[b]} : b \in DOMAIN lex.words }

\* word w agrees with the characters of a slot at every position
Agrees(w, content) ==
    /\ Len(w) = Len(content)
    /\ \A x \in DOMAIN w :
          content[x] = BLANK_CHAR \/ to_ascii_uppercase(content[x]) = w[x]

\* C10: possible_answers returns exactly the words of the lexicon that have
\* the slot's length and agree with it at every position that is not blank;
\* a length without words yields an empty result, never a failure.
C10_PossibleAnswersExact ==
    last.op = "possible_answers" =>
        /\ last.outcome = "Ok"
        /\ {answers[n] : n \in DOMAIN answers} =
              {w \in LexiconWords(lexicon) : Agrees(w, ContentOf(heap[last.self], last.i))}
        /\ (\A w \in LexiconWords(lexicon) : Len(w) # LengthOf(heap[last.self], last.i))
              => answers = <<>>

\* a slot of a blank and a lowercase letter picked one of two words of its length
C10_Witness ==
    /\ last.op = "possible_answers"
    /\ last.outcome = "Ok"
    /\ ContentOf(heap[last.self], last.i) = <<32, 97>>
    /\ Len(answers) = 1
    /\ Len(words_by_length(lexicon, 2)) = 2

NoRepeats(seq) == \A m, n \in DOMAIN seq : m # n => seq[m] # seq[n]

\* C11 (as claimed): whatever the word list, no bucket of the lexicon holds a
\* word twice and possible_answers returns no word twice.
C11_NoDuplicates ==
    /\ lexicon # NoLexicon => \A b \in DOMAIN lexicon.words : NoRepeats(lexicon.words[b])
    /\ last.op = "possible_answers" => NoRepeats(answers)

AllAscii(w) == \A x \in DOMAIN w : w[x] < 128

\* the ASCII-uppercased forms of the all-ASCII words of ws that have L characters
UppercasedOfLength(ws, L) ==
    { str_to_ascii_uppercase(ws[k]) : k \in { n \in DOMAIN ws : AllAscii(ws[n]) /\ Len(ws[n]) = L } }

\* C12: from_words always yields a lexicon whose bucket L holds only words of
\* L characters, and words_by_length(L) returns, without failing, exactly
\* the ASCII-uppercased forms of the all-ASCII input words of length L (none
\* when there are none, also past the longest word and on Lexicon::empty()).
C12_BucketLookupTotal ==
    /\ lexicon # NoLexicon =>
          /\ Len(lexicon.words) >= 1
          /\ \A b \in DOMAIN lexicon.words : \A n \in DOMAIN lexicon.words[b] :
                Len(lexicon.words[b][n]) = b - 1
    /\ last.op = "words_by_length" =>
          /\ last.outcome = "Ok"
          /\ { answers[n] : n \in DOMAIN answers } = UppercasedOfLength(words, last.i)

\* a lookup past the longest word on a lexicon built from a list with a
\* dropped non-ASCII word and a kept lower-case word
C12_Witness ==
    /\ last.op = "words_by_length"
    /\ last.i >= Len(lexicon.words)
    /\ answers = <<>>
    /\ \E n \in DOMAIN words : ~AllAscii(words[n])
    /\ \E n \in DOMAIN words : AllAscii(words[n]) /\ words[n] # str_to_ascii_uppercase(words[n])

(***************************************************************************)
(* Frame of a fill                                                         *)
(***************************************************************************)
\* the squares of the slot with global index i
SquaresOf(p, i) == { SquareOf(p, i, j) : j \in 0..(LengthOf(p, i) - 1) }

Crosses(p, k, i) == SquaresOf(p, k) \cap SquaresOf(p, i) # {}

\* C13: the puzzle a successful with_filled_slot(i, value) returns has the
\* dimensions and slot lists of the original and holds the same content in
\* every square outside slot i; a slot that does not cross slot i reads the
\* same string as before, and a slot that crosses it changes only at the
\* shared square, where it shows the character of value written there.
C13_FillFrame ==
    (last.op = "with_filled_slot" /\ last.outcome = "Ok") =>
        LET p == heap[last.self]
            q == heap[last.ret]
        IN /\ q.grid.nrows = p.grid.nrows
           /\ q.grid.ncols = p.grid.ncols
           /\ q.acrosses = p.acrosses
           /\ q.downs = p.downs
           /\ \A s \in DOMAIN p.grid.sq :
                 s \notin SquaresOf(p, last.i) => q.grid.sq[s] = p.grid.sq[s]
           /\ \A k \in 0..(nslots(p) - 1) :
                 /\ (k # last.i /\ ~Crosses(p, k, last.i)) => ContentOf(q, k) = ContentOf(p, k)
                 /\ \A x \in 0..(LengthOf(p, k) - 1) : \A j \in 0..(LengthOf(p, last.i) - 1) :
                       IF SquareOf(p, k, x) = SquareOf(p, last.i, j)
                       THEN ContentOf(q, k)[x + 1] = last.value[j + 1]
                       ELSE SquareOf(p, k, x) \in SquaresOf(p, last.i)
                            \/ ContentOf(q, k)[x + 1] = ContentOf(p, k)[x + 1]

\* a down slot of two squares was filled in a grid of four open squares: both
\* across slots cross it and read differently, the other down slot reads the same
C13_Witness ==
    /\ last.op = "with_filled_slot"
    /\ last.outcome = "Ok"
    /\ last.i >= nacross(heap[last.self])
    /\ LengthOf(heap[last.self], last.i) = 2
    /\ nacross(heap[last.self]) = 2
    /\ ndown(heap[last.self]) = 2
    /\ \A k \in 0..1 :
          /\ Crosses(heap[last.self], k, last.i)
          /\ ContentOf(heap[last.ret], k) # ContentOf(heap[last.self], k)
    /\ \E k \in 2..3 :
          /\ ~Crosses(heap[last.self], k, last.i)
          /\ ContentOf(heap[last.ret], k) = ContentOf(heap[last.self], k)

(***************************************************************************)
(* Slots stay open under fills                                             *)
(***************************************************************************)
Blocked(p) == { s \in DOMAIN p.grid.sq : p.grid.sq[s] = None }

\* C14: every puzzle derived from the parsed one by successful fills, with
\* any values ('.' included), has the slot lists and the blocked squares of
\* the parsed puzzle, and every square of every slot view is open, so that
\* indexing a slot or converting it to a String never panics on an empty
\* Square (stated of the newest puzzle of the store, which every puzzle once
\* was, and of the access that has just returned).
C14_SlotsStayOpen ==
    /\ heap # <<>> =>
          LET p == heap[Len(heap)]
              parsed == heap[1]
          IN /\ p.acrosses = parsed.acrosses
             /\ p.downs = parsed.downs
             /\ Blocked(p) = Blocked(parsed)
             /\ \A i \in 0..(nslots(p) - 1) :
                   LET view == access(p, i).view
                   IN /\ \A x \in 1..Len(view) : p.grid.sq[view[x]] # None
                      /\ \A j \in 0..(slot_len(view) - 1) : slot_index(p, view, j).tag = "Ok"
                      /\ slot_to_string(p, view).tag = "Ok"
    /\ last.msg # EmptySquare

\* a puzzle derived by two fills holds '.' in a square of one of its slots
C14_Witness ==
    /\ Len(heap) = 3
    /\ last.op = "with_filled_slot"
    /\ last.outcome = "Ok"
    /\ last.self = 2
    /\ \E i \in 0..(nslots(heap[3]) - 1) : \E x \in 1..LengthOf(heap[3], i) :
          /\ ContentOf(heap[3], i)[x] = BLOCKED_CHAR
          /\ ContentOf(heap[1], i)[x] # BLOCKED_CHAR
    /\ Blocked(heap[1]) # {}

(***************************************************************************)
(* Kind of parse error                                                     *)
(***************************************************************************)
Violates(t, n) ==
    \/ GraphemeCount(Piece(t, n)) # GraphemeCount(Piece(t, 1))
    \/ ~SingleCodepoints(Piece(t, n))

\* the first row, top to bottom, that breaks a parsing rule
FirstViolating(t) ==
    CHOOSE n \in 1..PieceCount(t) : Violates(t, n) /\ \A m \in 1..(n - 1) : ~Violates(t, m)

GraphemeStarts(row) == {x \in DOMAIN row : x = 1 \/ ~IsExtend(row[x])}

\* the numbers, counted from 1 along the row, of the graphemes of more than
\* one codepoint
MultiOrdinals(row) ==
    { Cardinality({y \in GraphemeStarts(row) : y <= x}) :
        x \in {z \in GraphemeStarts(row) : z + 1 <= Len(row) /\ IsExtend(row[z + 1])} }

\* C15 (as claimed): a first violating row of fewer graphemes than the first
\* row fails with RowTooShort and one of more graphemes with RowTooLong,
\* whatever graphemes that row contains.
C15_ErrorKindByCount ==
    pc = "failed" =>
        LET row == Piece(text, FirstViolating(text))
            ncols == GraphemeCount(Piece(text, 1))
        IN /\ GraphemeCount(row) < ncols => err = RowTooShort
           /\ GraphemeCount(row) > ncols => err = RowTooLong

\* C15 (amended): when one of the first ncols graphemes of the first
\* violating row has more than one codepoint, parse fails with
\* MultiCodepointGrapheme whatever the length of the row; otherwise a row of
\* fewer graphemes than the first fails with RowTooShort and a row of more
\* graphemes with RowTooLong, whatever graphemes follow its first ncols.
C15_ErrorKind ==
    pc = "failed" =>
        LET row == Piece(text, FirstViolating(text))
            ncols == GraphemeCount(Piece(text, 1))
        IN /\ \E n \in 1..PieceCount(text) : Violates(text, n)
           /\ IF \E o \in MultiOrdinals(row) : o <= ncols
              THEN err = MultiCodepointGrapheme
              ELSE /\ GraphemeCount(row) # ncols
                   /\ GraphemeCount(row) < ncols => err = RowTooShort
                   /\ GraphemeCount(row) > ncols => err = RowTooLong

\* a row longer than the first was rejected for its length although it holds
\* a grapheme of two codepoints past the column count
C15_Witness ==
    /\ pc = "failed"
    /\ err = RowTooLong
    /\ GraphemeCount(Piece(text, 1)) > 0
    /\ MultiOrdinals(Piece(text, FirstViolating(text))) # {}

====
